---- MODULE Spec2Model ----
\* State-machine model of the DirectWrite rasterizer (src/directwrite/mod.rs):
\* the font cache (load_font), the metrics engine (metrics), glyph lookup with
\* fallback resolution and rasterization (get_glyph), the two settings and
\* kerning, over a small fixed host (font collection, glyph tables, fallback
\* mapping, locale, DirectWrite factory).
EXTENDS Integers, Sequences, FiniteSets, TLC

\* ------------------------------------------------------------------ bounds
\* Number of font descriptions (a prefix of AllDescs) a caller may request.
MaxDesc == 3
\* Pixel sizes 1..MaxSize are passed to load_font and metrics.
MaxSize == 2
\* Pixel sizes 1..MaxEm are passed to get_glyph.
MaxEm == 1
\* Design-unit values the platform reports for a face range up to MaxUnits.
MaxUnits == 2

\* ------------------------------------------------------- program constants
MISSING_GLYPH_INDEX == 0

\* Option<T>: None is <<>>, Some(x) is <<x>>.
None == <<>>
Some(x) == <<x>>
IsSome(o) == o # <<>>
Unwrap(o) == o[1]

\* ------------------------------------------------------------ the host
\* dwrote::Font values of the installed families.
MonoRegular == [family_name |-> "Mono", face_name |-> "Regular",
                weight |-> "Regular", style |-> "Normal", stretch |-> "Normal"]
MonoBold == [family_name |-> "Mono", face_name |-> "Bold",
             weight |-> "Bold", style |-> "Normal", stretch |-> "Normal"]
SymRegular == [family_name |-> "Sym", face_name |-> "Regular",
               weight |-> "Regular", style |-> "Normal", stretch |-> "Normal"]

\* FontCollection::system(): family name -> the family's fonts, in index order.
available_fonts == [n \in {"Mono", "Sym"} |->
                      IF n = "Mono" THEN <<MonoRegular, MonoBold>> ELSE <<SymRegular>>]

\* font.create_font_face(): the face handle is identified by family and face name.
create_font_face(font) == <<font.family_name, font.face_name>>

\* impl From<dwrote::Font> for Font
FontFrom(font) == [face |-> create_font_face(font),
                   family_name |-> font.family_name,
                   weight |-> font.weight,
                   style |-> font.style,
                   stretch |-> font.stretch]

\* impl From<Weight> for FontWeight
WeightInto(weight) == IF weight = "Bold" THEN "Bold" ELSE "Regular"

\* impl From<Slant> for FontStyle
SlantInto(slant) == CASE slant = "Oblique" -> "Oblique"
                      [] slant = "Italic" -> "Italic"
                      [] OTHER -> "Normal"

\* FontDesc: name and Style::Description{weight, slant} or Style::Specific(name).
Description(weight, slant) == <<"Description", weight, slant>>
Specific(style) == <<"Specific", style>>
FontDesc(name, style) == [name |-> name, style |-> style]

AllDescs == << FontDesc("Mono", Description("Normal", "Normal")),
               FontDesc("Mono", Specific("Regular")),
               FontDesc("Mono", Specific("Black")),
               FontDesc("Nope", Description("Normal", "Normal")),
               FontDesc("Sym", Description("Bold", "Italic")) >>

Min(a, b) == IF a < b THEN a ELSE b
Descs == {AllDescs[i] : i \in 1..Min(MaxDesc, Len(AllDescs))}
Sizes == 1..MaxSize
EmSizes == 1..MaxEm
Modes == {"Aliased", "Grayscale", "Subpixel"}
\* 'a', the euro sign, the snowman, and an emoji outside the BMP.
Chars == {97, 8364, 9731, 128512}

\* FontCollection::font_family_by_name(name).ok().flatten()
font_family_by_name(name) ==
    IF name \in DOMAIN available_fonts THEN Some(available_fonts[name]) ELSE None

\* FontFamily::first_matching_font(weight, stretch, style): the platform's
\* nearest match; Err (None) when the family has no font.
MatchCost(f, weight, stretch, style) ==
    (IF f.weight = weight THEN 0 ELSE 4) + (IF f.style = style THEN 0 ELSE 2)
    + (IF f.stretch = stretch THEN 0 ELSE 1)
first_matching_font(family, weight, stretch, style) ==
    IF Len(family) = 0 THEN None
    ELSE LET best == CHOOSE i \in 1..Len(family) :
                        \A j \in 1..Len(family) :
                           \/ MatchCost(family[i], weight, stretch, style)
                                < MatchCost(family[j], weight, stretch, style)
                           \/ /\ MatchCost(family[i], weight, stretch, style)
                                   = MatchCost(family[j], weight, stretch, style)
                              /\ i <= j
         IN Some(family[best])

\* (0..count).find_map(|idx| family.font(idx).ok().filter(|f| f.face_name() == *style))
find_face_by_name(family, style) ==
    LET hits == {i \in 1..Len(family) : family[i].face_name = style}
    IN IF hits = {} THEN None
       ELSE Some(family[CHOOSE i \in hits : \A j \in hits : i <= j])

\* ------------------------------------------------------------ state
VARIABLES
    fonts,              \* self.fonts: FontKey -> Font
    keys,               \* self.keys: FontDesc -> FontKey
    fallback_sequence,  \* self.fallback_sequence: Option<FontFallback>
    rendering_mode,     \* self.rendering_mode
    grid_fitting,       \* self.grid_fitting
    TOKEN,              \* the process-wide counter behind FontKey::next()
    FACTORY3,           \* the OnceLock in get_dwrite3_factory: None until initialised
    font_metrics,       \* the DWRITE_FONT_METRICS the platform reports per face
    looked_up,          \* the descriptions a matching lookup has run for
    returned,           \* per description: the keys load_font has returned for it
    last                \* the last call: operation, arguments, result, steps taken

vars == <<fonts, keys, fallback_sequence, rendering_mode, grid_fitting, TOKEN,
          FACTORY3, font_metrics, looked_up, returned, last>>

\* &self as the operators below read it.
Self == [fonts |-> fonts, keys |-> keys, fallback_sequence |-> fallback_sequence,
         rendering_mode |-> rendering_mode, grid_fitting |-> grid_fitting,
         font_metrics |-> font_metrics]

\* FontKey::next(): the current counter value; the counter moves on by one.
FontKey_next(token) == [key |-> token, token |-> token + 1]

\* ------------------------------------------------------------ load_font
\* The matching lookup of load_font: the family by name, then the face by
\* weight and slant or by exact face name; with the lookups that ran.
resolve_font(desc) ==
    LET family == font_family_by_name(desc.name)
    IN IF ~IsSome(family)
       THEN [font |-> None, family_lookups |-> 1, face_selections |-> 0]
       ELSE [font |-> IF desc.style[1] = "Description"
                      THEN first_matching_font(Unwrap(family),
                               WeightInto(desc.style[2]), "Normal",
                               SlantInto(desc.style[3]))
                      ELSE find_face_by_name(Unwrap(family), desc.style[2]),
             family_lookups |-> 1, face_selections |-> 1]

\* Faulty variant: the key is recorded for the description, the font is not stored.
cache_insert_keys_only(self, desc, key, font) ==
    [keys |-> [d \in DOMAIN self.keys \cup {desc} |->
                 IF d = desc THEN key ELSE self.keys[d]],
     fonts |-> self.fonts]

\* self.keys.insert(desc.clone(), key); self.fonts.insert(key, font.into())
cache_insert(self, desc, key, font) ==
    [keys |-> [d \in DOMAIN self.keys \cup {desc} |->
                 IF d = desc THEN key ELSE self.keys[d]],
     fonts |-> [k \in DOMAIN self.fonts \cup {key} |->
                 IF k = key THEN FontFrom(font) ELSE self.fonts[k]]]

\* Faulty variant: a description resolving to a face that is already cached is given
\* that face's key instead of a fresh one.
load_font_miss_share_face(self, token, desc) ==
    LET r == resolve_font(desc)
        same == {k \in DOMAIN self.fonts :
                   IsSome(r.font) /\ self.fonts[k].face = create_font_face(Unwrap(r.font))}
        key == IF same # {} THEN CHOOSE k \in same : TRUE ELSE FontKey_next(token).key
        c == cache_insert(self, desc, key, Unwrap(r.font))
    IN IF ~IsSome(r.font)
       THEN [result |-> <<"FontNotFound", desc>>, keys |-> self.keys,
             fonts |-> self.fonts, token |-> token,
             family_lookups |-> r.family_lookups, face_selections |-> r.face_selections]
       ELSE [result |-> <<"Ok", key>>, keys |-> c.keys, fonts |-> c.fonts,
             token |-> IF same # {} THEN token ELSE FontKey_next(token).token,
             family_lookups |-> r.family_lookups, face_selections |-> r.face_selections]

\* load_font past its fast path: resolve, draw a key, insert into both maps.
load_font_miss(self, token, desc) ==
    LET r == resolve_font(desc)
        nk == FontKey_next(token)
        c == cache_insert(self, desc, nk.key, Unwrap(r.font))
    IN IF ~IsSome(r.font)
       THEN [result |-> <<"FontNotFound", desc>>, keys |-> self.keys,
             fonts |-> self.fonts, token |-> token,
             family_lookups |-> r.family_lookups, face_selections |-> r.face_selections]
       ELSE [result |-> <<"Ok", nk.key>>, keys |-> c.keys, fonts |-> c.fonts,
             token |-> nk.token,
             family_lookups |-> r.family_lookups, face_selections |-> r.face_selections]

\* Faulty variant: the cached key is returned only for a request at size 1.
load_font_by_size(self, token, desc, size) ==
    IF desc \in DOMAIN self.keys /\ size = 1
    THEN [result |-> <<"Ok", self.keys[desc]>>, keys |-> self.keys,
          fonts |-> self.fonts, token |-> token,
          family_lookups |-> 0, face_selections |-> 0]
    ELSE load_font_miss(self, token, desc)

\* Faulty variant: no fast path, every request is resolved again.
load_font_no_fast_path(self, token, desc, size) ==
    load_font_miss(self, token, desc)

\* The outcome of load_font on the cache maps: the result, the maps and the
\* counter afterwards, and how many family lookups and face selections ran.
load_font(self, token, desc, size) ==
    IF desc \in DOMAIN self.keys
    THEN [result |-> <<"Ok", self.keys[desc]>>, keys |-> self.keys,
          fonts |-> self.fonts, token |-> token,
          family_lookups |-> 0, face_selections |-> 0]
    ELSE load_font_miss(self, token, desc)

\* ------------------------------------------------------------ glyph lookup
\* FontFace::glyph_indices(&[cp]): Err is None, otherwise the indices found.
\* Mono has '!' and 'a' and fails on the emoji; Sym has the euro sign only.
glyph_indices(face, cp) ==
    IF face[1] = "Mono"
    THEN IF cp = 128512 THEN None
         ELSE Some(<<CASE cp = 33 -> 4 [] cp = 97 -> 68 [] OTHER -> 0>>)
    ELSE Some(<<IF cp = 8364 THEN 7 ELSE 0>>)

\* Faulty variant: an unknown key is served by some loaded font.
get_loaded_font_or_any(self, font_key) ==
    IF font_key \in DOMAIN self.fonts
    THEN <<"Ok", self.fonts[font_key]>>
    ELSE IF DOMAIN self.fonts # {}
    THEN <<"Ok", self.fonts[CHOOSE k \in DOMAIN self.fonts : TRUE]>>
    ELSE <<"UnknownFontKey">>

\* self.fonts.get(&font_key).ok_or(Error::UnknownFontKey)
get_loaded_font(self, font_key) ==
    IF font_key \in DOMAIN self.fonts
    THEN <<"Ok", self.fonts[font_key]>>
    ELSE <<"UnknownFontKey">>

get_glyph_index(face, character) ==
    LET v == glyph_indices(face, character)
    IN IF IsSome(v) /\ Len(Unwrap(v)) > 0 THEN Unwrap(v)[1] ELSE MISSING_GLYPH_INDEX

\* ------------------------------------------------------------ fallback
\* char::encode_utf16 and char::len_utf16.
len_utf16(cp) == IF cp < 65536 THEN 1 ELSE 2
encode_utf16(cp) ==
    IF cp < 65536 THEN <<cp, 0>>
    ELSE <<55296 + ((cp - 65536) \div 1024), 56320 + ((cp - 65536) % 1024)>>

IsHighSurrogate(u) == u >= 55296 /\ u <= 56319
IsLowSurrogate(u) == u >= 56320 /\ u <= 57343
\* OsString::from_wide(..).into_string(): Ok only for well-formed UTF-16.
RECURSIVE Utf16WellFormed(_)
Utf16WellFormed(w) ==
    IF Len(w) = 0 THEN TRUE
    ELSE IF IsHighSurrogate(w[1])
         THEN Len(w) >= 2 /\ IsLowSurrogate(w[2])
              /\ Utf16WellFormed(SubSeq(w, 3, Len(w)))
         ELSE ~IsLowSurrogate(w[1]) /\ Utf16WellFormed(SubSeq(w, 2, Len(w)))

\* get_current_locale(): the locale string, or a panic ("Panic") when the
\* platform reports length 0 (len - 1 underflows) or ill-formed UTF-16.
get_current_locale(plat) ==
    LET len == plat.locale_len
    IN IF len = 0 THEN <<"Panic", "len - 1">>
       ELSE LET wide == SubSeq(plat.locale_buffer, 1, len - 1)
            IN IF Utf16WellFormed(wide) THEN <<"Ok", wide>>
               ELSE <<"Panic", "Locale not valid unicode">>

\* FontFallback::map_characters(..).mapped_font of the host's fallback sequence.
map_characters(text, position, length, collection, family_name, weight, style, stretch) ==
    LET run == SubSeq(text, position + 1, position + length)
    IN CASE run = <<8364>> \/ run = <<9731>> -> Some(collection["Sym"][1])
         [] run = <<97>> \/ run = <<33>> ->
              Some(IF weight = "Bold" THEN collection["Mono"][2] ELSE collection["Mono"][1])
         [] OTHER -> None

\* Faulty variant: the fallback sequence is never consulted.
get_fallback_font_unused(self, plat, loaded_font, character) ==
    [panic |-> FALSE, font |-> None, locale_queries |-> 0, map_calls |-> 0]

\* The font the fallback sequence maps the character to (None when there is no
\* sequence or nothing is mapped), with the platform calls made on the way.
get_fallback_font(self, plat, loaded_font, character) ==
    IF ~IsSome(self.fallback_sequence)
    THEN [panic |-> FALSE, font |-> None, locale_queries |-> 0, map_calls |-> 0]
    ELSE LET buffer == encode_utf16(character)
             length == len_utf16(character)
             utf16_codepoints == SubSeq(buffer, 1, length)
             locale == get_current_locale(plat)
         IN IF locale[1] = "Panic"
            THEN [panic |-> TRUE, font |-> None, locale_queries |-> 1, map_calls |-> 0]
            ELSE [panic |-> FALSE,
                  font |-> map_characters(utf16_codepoints, 0, length, available_fonts,
                               loaded_font.family_name, loaded_font.weight,
                               loaded_font.style, loaded_font.stretch),
                  locale_queries |-> 1, map_calls |-> 1]

\* ------------------------------------------------------------ rasterization
\* get_dwrite3_factory(): the OnceLock is filled on first use with the factory
\* pointer (1), or with 0 when DWriteCreateFactory or QueryInterface fails or
\* hands back a null pointer.
get_dwrite3_factory(cell, plat) ==
    LET ptr == IF IsSome(cell) THEN Unwrap(cell)
               ELSE IF plat.create_hr # "S_OK" \/ plat.factory_null THEN 0
               ELSE IF plat.query_hr # "S_OK" \/ plat.factory3_null THEN 0
               ELSE 1
    IN [cell |-> Some(ptr), factory |-> IF ptr = 0 THEN None ELSE Some(ptr)]

\* Faulty variant: the Aliased arm measures like the other two.
rendering_params_natural(mode) ==
    CASE mode = "Aliased" ->
           <<"RENDERING_MODE1_ALIASED", "MEASURING_MODE_NATURAL",
             "TEXT_ANTIALIAS_MODE_GRAYSCALE">>
      [] mode = "Grayscale" ->
           <<"RENDERING_MODE1_NATURAL_SYMMETRIC", "MEASURING_MODE_NATURAL",
             "TEXT_ANTIALIAS_MODE_GRAYSCALE">>
      [] mode = "Subpixel" ->
           <<"RENDERING_MODE1_NATURAL_SYMMETRIC", "MEASURING_MODE_NATURAL",
             "TEXT_ANTIALIAS_MODE_CLEARTYPE">>

\* The match on self.rendering_mode choosing the DirectWrite parameters.
rendering_params(mode) ==
    CASE mode = "Aliased" ->
           <<"RENDERING_MODE1_ALIASED", "MEASURING_MODE_GDI_CLASSIC",
             "TEXT_ANTIALIAS_MODE_GRAYSCALE">>
      [] mode = "Grayscale" ->
           <<"RENDERING_MODE1_NATURAL_SYMMETRIC", "MEASURING_MODE_NATURAL",
             "TEXT_ANTIALIAS_MODE_GRAYSCALE">>
      [] mode = "Subpixel" ->
           <<"RENDERING_MODE1_NATURAL_SYMMETRIC", "MEASURING_MODE_NATURAL",
             "TEXT_ANTIALIAS_MODE_CLEARTYPE">>

grid_fit_mode(enabled) ==
    IF enabled THEN "GRID_FIT_MODE_ENABLED" ELSE "GRID_FIT_MODE_DISABLED"

texture_type(mode) ==
    IF mode = "Subpixel" THEN "TEXTURE_CLEARTYPE_3x1" ELSE "TEXTURE_ALIASED_1x1"

\* GlyphRunAnalysis::get_alpha_texture_bounds: the notdef glyph has no ink, any
\* other glyph is one pixel wide and em_size pixels tall, above the baseline.
get_alpha_texture_bounds(glyph_index, em_size) ==
    IF glyph_index = 0 THEN [left |-> 0, top |-> 0, right |-> 0, bottom |-> 0]
    ELSE [left |-> 0, top |-> 0 - em_size, right |-> 1, bottom |-> 0]

\* GlyphRunAnalysis::create_alpha_texture: one sample per pixel, three for the
\* ClearType layout; sample i has value i.
create_alpha_texture(ttype, bounds) ==
    LET n == (bounds.right - bounds.left) * (bounds.bottom - bounds.top)
             * (IF ttype = "TEXTURE_CLEARTYPE_3x1" THEN 3 ELSE 1)
    IN [i \in 1..n |-> i % 256]

\* The buffer handed to the atlas: ClearType samples pass through, single
\* channel samples are written three times each.
to_rgb(mode, raw_buffer) ==
    IF mode = "Subpixel" THEN raw_buffer
    ELSE [i \in 1..(3 * Len(raw_buffer)) |-> raw_buffer[((i - 1) \div 3) + 1]]

\* impl From<HRESULT> for Error
ErrorFromHresult(hr) == <<"PlatformError", <<"a DirectWrite rendering error occurred", hr>>>>

\* Faulty variant: a run of the notdef glyph is refused as a platform failure.
create_glyph_run_analysis_notdef(plat, glyph_run) ==
    IF glyph_run.glyphIndex = MISSING_GLYPH_INDEX THEN Some(ErrorFromHresult("E_INVALIDARG"))
    ELSE IF plat.analysis_hr # "S_OK" \/ plat.native_null
    THEN Some(ErrorFromHresult(plat.analysis_hr))
    ELSE None

\* The unsafe block around CreateGlyphRunAnalysis: the error it returns early
\* with, or None when the analysis object was created.
create_glyph_run_analysis(plat, glyph_run) ==
    IF plat.analysis_hr # "S_OK" \/ plat.native_null
    THEN Some(ErrorFromHresult(plat.analysis_hr))
    ELSE None

\* rasterize_glyph: result, the factory cell afterwards and the parameters
\* handed to CreateGlyphRunAnalysis. plat is what the platform calls answer.
rasterize_glyph(self, cell, plat, face, size, character, glyph_index) ==
    LET em_size == size
        triple == rendering_params(self.rendering_mode)
        gfm == grid_fit_mode(self.grid_fitting)
        f3 == get_dwrite3_factory(cell, plat)
        ttype == texture_type(self.rendering_mode)
        params == [fontFace |-> face, fontEmSize |-> em_size,
                   glyphIndex |-> glyph_index,
                   rendering_mode1 |-> triple[1], measuring_mode |-> triple[2],
                   antialias_mode |-> triple[3], grid_fit_mode |-> gfm,
                   texture_type |-> ttype]
        bounds == get_alpha_texture_bounds(glyph_index, em_size)
        raw_buffer == create_alpha_texture(ttype, bounds)
    IN IF ~IsSome(f3.factory)
       THEN [result |-> <<"PlatformError", "IDWriteFactory3 not available">>,
             cell |-> f3.cell, params |-> params]
       ELSE IF IsSome(create_glyph_run_analysis(plat, params))
       THEN [result |-> Unwrap(create_glyph_run_analysis(plat, params)),
             cell |-> f3.cell, params |-> params]
       ELSE IF plat.bounds_hr # "S_OK"
       THEN [result |-> ErrorFromHresult(plat.bounds_hr),
             cell |-> f3.cell, params |-> params]
       ELSE IF plat.texture_hr # "S_OK"
       THEN [result |-> ErrorFromHresult(plat.texture_hr),
             cell |-> f3.cell, params |-> params]
       ELSE [result |-> <<"Ok", [character |-> character,
                                 width |-> bounds.right - bounds.left,
                                 height |-> bounds.bottom - bounds.top,
                                 top |-> 0 - bounds.top,
                                 left |-> bounds.left,
                                 advance |-> <<0, 0>>,
                                 buffer |-> to_rgb(self.rendering_mode, raw_buffer)]>>,
             cell |-> f3.cell, params |-> params]

\* ------------------------------------------------------------ get_glyph
\* The steps a call took: platform and helper calls made, the glyph indices
\* found, the font the fallback mapped, the face and parameters rasterized.
NoTrace == [glyph_lookups |-> 0, fallback_calls |-> 0, locale_queries |-> 0,
            map_calls |-> 0, raster_calls |-> 0, family_lookups |-> 0,
            face_selections |-> 0, primary_index |-> None, glyph_index |-> None,
            mapped |-> None, face |-> None, params |-> None, raster |-> None]

\* get_glyph: result, the factory cell afterwards, and the steps taken.
get_glyph(self, cell, plat, glyph) ==
    LET lf == get_loaded_font(self, glyph.font_key)
    IN IF lf[1] # "Ok"
       THEN [result |-> lf, cell |-> cell, trace |-> NoTrace]
       ELSE
       LET loaded_font == lf[2]
           primary == get_glyph_index(loaded_font.face, glyph.character)
           missing == primary = MISSING_GLYPH_INDEX
           fb == IF missing THEN get_fallback_font(self, plat, loaded_font, glyph.character)
                 ELSE [panic |-> FALSE, font |-> None, locale_queries |-> 0,
                       map_calls |-> 0]
           use_fb == missing /\ IsSome(fb.font)
           loaded_fallback_font == FontFrom(Unwrap(fb.font))
           glyph_index == IF use_fb
                          THEN get_glyph_index(loaded_fallback_font.face, glyph.character)
                          ELSE primary
           font == IF use_fb THEN loaded_fallback_font ELSE loaded_font
           r == rasterize_glyph(self, cell, plat, font.face, glyph.size,
                                glyph.character, glyph_index)
           before == [NoTrace EXCEPT !.glyph_lookups = 1,
                                     !.primary_index = Some(primary),
                                     !.fallback_calls = IF missing THEN 1 ELSE 0,
                                     !.locale_queries = fb.locale_queries,
                                     !.map_calls = fb.map_calls]
       IN IF fb.panic
          THEN [result |-> <<"Panic", get_current_locale(plat)[2]>>, cell |-> cell,
                trace |-> before]
          ELSE LET trace == [before EXCEPT !.glyph_lookups = IF use_fb THEN 2 ELSE 1,
                                           !.glyph_index = Some(glyph_index),
                                           !.mapped = fb.font,
                                           !.raster_calls = 1,
                                           !.face = Some(font.face),
                                           !.params = Some(r.params),
                                           !.raster = Some(r.result)]
               IN IF r.result[1] # "Ok"
                  THEN [result |-> r.result, cell |-> r.cell, trace |-> trace]
                  ELSE IF glyph_index = MISSING_GLYPH_INDEX
                  THEN [result |-> <<"MissingGlyph", r.result[2]>>, cell |-> r.cell,
                        trace |-> trace]
                  ELSE [result |-> <<"Ok", r.result[2]>>, cell |-> r.cell,
                        trace |-> trace]

\* ------------------------------------------------------------ metrics
\* Natural numbers of any width: sequences of LimbBits-bit digits, least
\* significant first, without leading zero digits (zero is the empty
\* sequence). f64 mantissas do not fit the checker's integers.
LimbBits == 12
BigBase == 2^LimbBits
Abs(n) == IF n < 0 THEN 0 - n ELSE n
Max(a, b) == IF a > b THEN a ELSE b
SetMax(S) == CHOOSE x \in S : \A y \in S : y <= x
BigDigit(a, i) == IF 1 <= i /\ i <= Len(a) THEN a[i] ELSE 0
BigTrim(a) == IF Len(a) = 0 THEN <<>>
              ELSE IF a[Len(a)] # 0 THEN SubSeq(a, 1, Len(a))
              ELSE LET nz == {i \in 1..Len(a) : a[i] # 0}
                   IN IF nz = {} THEN <<>> ELSE SubSeq(a, 1, SetMax(nz))
\* Carries the excess of each digit of a, and the carry c, upwards.
RECURSIVE BigNorm(_, _)
BigNorm(a, c) ==
    IF Len(a) = 0
    THEN IF c = 0 THEN <<>> ELSE <<c % BigBase>> \o BigNorm(<<>>, c \div BigBase)
    ELSE <<(Head(a) + c) % BigBase>> \o BigNorm(Tail(a), (Head(a) + c) \div BigBase)
BigFromNat(n) == BigNorm(<<>>, n)
BigBitLen(a) ==
    IF Len(a) = 0 THEN 0
    ELSE LimbBits * (Len(a) - 1)
         + (CHOOSE k \in 1..LimbBits : 2^(k - 1) <= a[Len(a)] /\ a[Len(a)] < 2^k)
\* a * c for a small factor c
BigScale(a, c) == IF Len(a) = 0 THEN <<>>
                  ELSE BigTrim(BigNorm([i \in 1..Len(a) |-> a[i] * c], 0))
\* a * 2^k
BigShl(a, k) == IF Len(a) = 0 \/ k = 0 THEN a
                ELSE IF k < LimbBits THEN BigScale(a, 2^k)
                ELSE [i \in 1..(k \div LimbBits) |-> 0] \o BigScale(a, 2^(k % LimbBits))
\* a \div 2^k
BigShr(a, k) ==
    LET L == k \div LimbBits
        b == k % LimbBits
        n == Len(a) - L
    IN IF n <= 0 THEN <<>>
       ELSE BigTrim([i \in 1..n |-> (a[i + L] \div 2^b)
                                    + (BigDigit(a, i + L + 1) % 2^b) * 2^(LimbBits - b)])
BigAdd(a, b) ==
    LET n == Max(Len(a), Len(b)) + 1
        s(i) == BigDigit(a, i) + BigDigit(b, i)
        carry(i) == \E j \in 1..(i - 1) :
                        s(j) >= BigBase /\ \A k \in (j + 1)..(i - 1) : s(k) = BigBase - 1
    IN IF Len(a) <= 1 /\ Len(b) <= 1 THEN BigNorm(<<>>, BigDigit(a, 1) + BigDigit(b, 1))
       ELSE BigTrim([i \in 1..n |-> (s(i) + IF carry(i) THEN 1 ELSE 0) % BigBase])
\* a - b for a >= b
BigSub(a, b) ==
    LET d(i) == BigDigit(a, i) - BigDigit(b, i)
        borrow(i) == \E j \in 1..(i - 1) :
                         d(j) < 0 /\ \A k \in (j + 1)..(i - 1) : d(k) = 0
    IN IF Len(a) <= 1 THEN BigNorm(<<>>, BigDigit(a, 1) - BigDigit(b, 1))
       ELSE BigTrim([i \in 1..Len(a) |-> (d(i) - IF borrow(i) THEN 1 ELSE 0) % BigBase])
\* -1, 0 or 1 as a is below, equal to or above b
BigCmp(a, b) ==
    IF Len(a) > Len(b) THEN 1
    ELSE IF Len(a) < Len(b) THEN 0 - 1
    ELSE LET diff == {i \in 1..Len(a) : a[i] # b[i]}
         IN IF diff = {} THEN 0
            ELSE IF a[SetMax(diff)] > b[SetMax(diff)] THEN 1 ELSE 0 - 1
RECURSIVE BigColumn(_, _, _, _)
BigColumn(a, b, k, i) ==
    IF i = 0 THEN 0 ELSE a[i] * BigDigit(b, k + 1 - i) + BigColumn(a, b, k, i - 1)
BigMul(a, b) ==
    IF Len(a) = 0 \/ Len(b) = 0 THEN <<>>
    ELSE IF Len(a) = 1 /\ Len(b) = 1 THEN BigNorm(<<>>, a[1] * b[1])
    ELSE BigTrim(BigNorm([k \in 1..(Len(a) + Len(b) - 1) |-> BigColumn(a, b, k, Len(a))], 0))
BigTrailingZeros(a) ==
    LET f == CHOOSE i \in 1..Len(a) : a[i] # 0 /\ \A j \in 1..(i - 1) : a[j] = 0
    IN LimbBits * (f - 1) + SetMax({k \in 0..LimbBits : a[f] % 2^k = 0})
\* 2 * r + bit
BigDouble(r, bit) == IF Len(r) = 0 THEN (IF bit = 0 THEN <<>> ELSE <<1>>)
                     ELSE BigNorm([i \in 1..Len(r) |-> 2 * r[i]], bit)
\* Long division by d # 0: bits j..1 of one digit of the dividend, then the
\* digits from i downwards.
RECURSIVE BigDivBits(_, _, _, _, _)
BigDivBits(limb, d, j, qd, r) ==
    IF j = 0 THEN [qd |-> qd, r |-> r]
    ELSE LET r2 == BigDouble(r, (limb \div 2^(j - 1)) % 2)
         IN IF BigCmp(r2, d) >= 0
            THEN BigDivBits(limb, d, j - 1, 2 * qd + 1, BigSub(r2, d))
            ELSE BigDivBits(limb, d, j - 1, 2 * qd, r2)
RECURSIVE BigDivLimbs(_, _, _, _, _)
BigDivLimbs(n, d, i, q, r) ==
    IF i = 0 THEN [q |-> BigTrim(q), r |-> r]
    ELSE LET st == BigDivBits(n[i], d, LimbBits, 0, r)
         IN BigDivLimbs(n, d, i - 1, <<st.qd>> \o q, st.r)
BigDivMod(n, d) == BigDivLimbs(n, d, Len(n), <<>>, <<>>)

\* IEEE 754 binary floating point values: NaN, the infinities, and the finite
\* values (-1)^neg * m * 2^e with m odd (m = 0 and e = 0 for the two zeros).
\* A format has p significant bits, least exponent qmin of the last bit and
\* greatest exponent emax of the first.
F64Format == [p |-> 53, qmin |-> 0 - 1074, emax |-> 1023]
F32Format == [p |-> 24, qmin |-> 0 - 149, emax |-> 127]
NaN == [k |-> "nan", neg |-> FALSE, m |-> <<>>, e |-> 0]
Inf(neg) == [k |-> "inf", neg |-> neg, m |-> <<>>, e |-> 0]
Zero(neg) == [k |-> "fin", neg |-> neg, m |-> <<>>, e |-> 0]
IsZero(x) == x.k = "fin" /\ x.m = <<>>
Canon(neg, m, e) ==
    IF Len(m) = 0 THEN Zero(neg)
    ELSE IF m[1] % 2 = 1 THEN [k |-> "fin", neg |-> neg, m |-> m, e |-> e]
    ELSE [k |-> "fin", neg |-> neg, m |-> BigShr(m, BigTrailingZeros(m)),
          e |-> e + BigTrailingZeros(m)]
\* floor(log2(N / D)) for N, D > 0, given L = BigBitLen(N) - BigBitLen(D)
BigLog2Ratio(N, D, L) ==
    IF (IF L >= 0 THEN BigCmp(N, BigShl(D, L)) ELSE BigCmp(BigShl(N, 0 - L), D)) >= 0
    THEN L ELSE L - 1
\* (-1)^neg * q * 2^qe with q of at most fmt.p bits: past the largest finite
\* value of the format, the infinity.
FloatFinish(fmt, neg, q, qe) ==
    IF BigBitLen(q) + qe > fmt.emax + 1 THEN Inf(neg) ELSE Canon(neg, q, qe)
\* The quotient q0 rounded to nearest, ties to even; half is -1, 0 or 1 as
\* the remainder is below, equal to or above half the divisor.
FloatNearest(q0, half) ==
    IF half > 0 \/ (half = 0 /\ BigDigit(q0, 1) % 2 = 1) THEN BigAdd(q0, <<1>>) ELSE q0
FloatRoundDiv(fmt, neg, dm, den, qe) ==
    FloatFinish(fmt, neg, FloatNearest(dm.q, BigCmp(BigShl(dm.r, 1), den)), qe)
\* The multiple of 2^qe nearest to (N / D) * 2^e.
FloatRoundAt(fmt, neg, N, D, e, qe) ==
    IF e >= qe
    THEN IF D = <<1>> THEN FloatFinish(fmt, neg, N, e)
         ELSE FloatRoundDiv(fmt, neg, BigDivMod(BigShl(N, e - qe), D), D, qe)
    ELSE FloatRoundDiv(fmt, neg, BigDivMod(N, BigShl(D, qe - e)), BigShl(D, qe - e), qe)
\* The value of format fmt nearest to (-1)^neg * (N / D) * 2^e for N, D > 0,
\* ties to the even mantissa: the last bit kept has exponent qe, fmt.p - 1
\* below the first bit's, or fmt.qmin for a subnormal value. An integer N
\* that fits the mantissa, within the normal exponent range, is kept as it is.
FloatRound(fmt, neg, N, D, e) ==
    IF D = <<1>> /\ LimbBits * Len(N) <= fmt.p
                 /\ e >= fmt.qmin /\ LimbBits * Len(N) + e <= fmt.emax
    THEN Canon(neg, N, e)
    ELSE IF D = <<1>>
    THEN FloatRoundAt(fmt, neg, N, D, e, Max(BigBitLen(N) - 1 + e - (fmt.p - 1), fmt.qmin))
    ELSE FloatRoundAt(fmt, neg, N, D, e,
                      Max(BigLog2Ratio(N, D, BigBitLen(N) - BigBitLen(D)) + e - (fmt.p - 1),
                          fmt.qmin))
\* f64::from(integer): exact.
F64From(i) == Canon(i < 0, BigFromNat(Abs(i)), 0)
F64Neg(x) == IF x.k = "nan" THEN NaN ELSE [x EXCEPT !.neg = ~x.neg]
F64Div(x, y) ==
    CASE x.k = "nan" \/ y.k = "nan" -> NaN
      [] x.k = "inf" /\ y.k = "inf" -> NaN
      [] IsZero(x) /\ IsZero(y) -> NaN
      [] x.k = "inf" \/ IsZero(y) -> Inf(x.neg # y.neg)
      [] y.k = "inf" \/ IsZero(x) -> Zero(x.neg # y.neg)
      [] OTHER -> FloatRound(F64Format, x.neg # y.neg, x.m, y.m, x.e - y.e)
F64Mul(x, y) ==
    CASE x.k = "nan" \/ y.k = "nan" -> NaN
      [] (x.k = "inf" /\ IsZero(y)) \/ (IsZero(x) /\ y.k = "inf") -> NaN
      [] x.k = "inf" \/ y.k = "inf" -> Inf(x.neg # y.neg)
      [] IsZero(x) \/ IsZero(y) -> Zero(x.neg # y.neg)
      [] OTHER -> FloatRound(F64Format, x.neg # y.neg, BigMul(x.m, y.m), <<1>>, x.e + y.e)
\* x + y for finite non-zero x and y of magnitudes a * 2^lo and b * 2^lo.
F64AddAligned(xneg, yneg, a, b, lo) ==
    IF xneg = yneg THEN FloatRound(F64Format, xneg, BigAdd(a, b), <<1>>, lo)
    ELSE IF BigCmp(a, b) = 0 THEN Zero(FALSE)
    ELSE IF BigCmp(a, b) > 0 THEN FloatRound(F64Format, xneg, BigSub(a, b), <<1>>, lo)
    ELSE FloatRound(F64Format, yneg, BigSub(b, a), <<1>>, lo)
F64Add(x, y) ==
    CASE x.k = "nan" \/ y.k = "nan" -> NaN
      [] x.k = "inf" /\ y.k = "inf" -> IF x.neg = y.neg THEN x ELSE NaN
      [] x.k = "inf" -> x
      [] y.k = "inf" -> y
      [] IsZero(x) /\ IsZero(y) -> Zero(x.neg /\ y.neg)
      [] IsZero(x) -> y
      [] IsZero(y) -> x
      [] OTHER -> F64AddAligned(x.neg, y.neg, BigShl(x.m, x.e - Min(x.e, y.e)),
                                BigShl(y.m, y.e - Min(x.e, y.e)), Min(x.e, y.e))
F64Sub(x, y) == F64Add(x, F64Neg(y))
\* x > y on f64: false whenever a NaN is involved, and the two zeros are equal.
F64GtMagnitude(neg, c) == IF neg THEN c < 0 ELSE c > 0
F64Gt(x, y) ==
    CASE x.k = "nan" \/ y.k = "nan" -> FALSE
      [] x.k = "inf" -> ~x.neg /\ ~(y.k = "inf" /\ ~y.neg)
      [] y.k = "inf" -> y.neg
      [] IsZero(x) /\ IsZero(y) -> FALSE
      [] IsZero(x) -> y.neg
      [] IsZero(y) -> ~x.neg
      [] x.neg # y.neg -> y.neg
      [] OTHER -> F64GtMagnitude(x.neg, BigCmp(BigShl(x.m, x.e - Min(x.e, y.e)),
                                               BigShl(y.m, y.e - Min(x.e, y.e))))
\* `as f32` of an f64: the nearest f32.
as_f32(x) == IF x.k # "fin" \/ IsZero(x) THEN x
             ELSE FloatRound(F32Format, x.neg, x.m, <<1>>, x.e)

\* Faulty variant: the (negative) descent is added instead of subtracted.
line_height_plus_descent(ascent, descent, line_gap) ==
    F64Add(F64Add(ascent, descent), line_gap)

\* let line_height = ascent - descent + line_gap;
line_height_of(ascent, descent, line_gap) ==
    F64Add(F64Sub(ascent, descent), line_gap)

\* FontFace::design_glyph_metrics(&[glyph_index], false): Err is None.
design_glyph_metrics(face, glyph_index, hr) ==
    IF hr # "S_OK" THEN None
    ELSE Some(<<[advanceWidth |-> IF glyph_index = 0 THEN 4 ELSE 5]>>)

\* metrics: the result and the glyph lookups made. self.font_metrics[face] is
\* face.metrics().metrics0(); hr is the platform's answer to design_glyph_metrics.
metrics(self, key, size, hr) ==
    LET lf == get_loaded_font(self, key)
    IN IF lf[1] # "Ok" THEN [result |-> lf, trace |-> NoTrace]
       ELSE
       LET face == lf[2].face
           vmetrics == self.font_metrics[face]
           scale == F64Div(F64From(size), F64From(vmetrics.designUnitsPerEm))
           underline_position == F64Mul(F64From(vmetrics.underlinePosition), scale)
           underline_thickness == F64Mul(F64From(vmetrics.underlineThickness), scale)
           strikeout_position == F64Mul(F64From(vmetrics.strikethroughPosition), scale)
           strikeout_thickness == F64Mul(F64From(vmetrics.strikethroughThickness), scale)
           ascent == F64Mul(F64From(vmetrics.ascent), scale)
           descent == F64Mul(F64Neg(F64From(vmetrics.descent)), scale)
           line_gap == F64Mul(F64From(vmetrics.lineGap), scale)
           line_height == line_height_of(ascent, descent, line_gap)
           character == 33
           glyph_index == get_glyph_index(face, character)
           glyph_metrics == design_glyph_metrics(face, glyph_index, hr)
           trace == [NoTrace EXCEPT !.glyph_lookups = 1,
                                    !.primary_index = Some(glyph_index)]
       IN IF ~IsSome(glyph_metrics) \/ Len(Unwrap(glyph_metrics)) = 0
          THEN [result |-> <<"MetricsNotFound">>, trace |-> trace]
          ELSE LET hmetrics == Unwrap(glyph_metrics)[1]
                   average_advance == F64Mul(F64From(hmetrics.advanceWidth), scale)
               IN [result |-> <<"Ok", [descent |-> as_f32(descent),
                                       average_advance |-> average_advance,
                                       line_height |-> line_height,
                                       underline_position |-> as_f32(underline_position),
                                       underline_thickness |-> as_f32(underline_thickness),
                                       strikeout_position |-> as_f32(strikeout_position),
                                       strikeout_thickness |-> as_f32(strikeout_thickness)]>>,
                   trace |-> trace]

\* kerning: this backend has none.
kerning(left, right) == <<0, 0>>

\* ------------------------------------------------------------ the platform
Faces == UNION {{create_font_face(available_fonts[n][i]) :
                    i \in 1..Len(available_fonts[n])} : n \in DOMAIN available_fonts}

\* DWRITE_FONT_METRICS in design units: lineGap, underlinePosition and
\* strikethroughPosition are i16, the other fields u16.
FontMetrics(upm, ascent, descent, lineGap) ==
    [designUnitsPerEm |-> upm, ascent |-> ascent, descent |-> descent,
     lineGap |-> lineGap, underlinePosition |-> 0 - 1, underlineThickness |-> 1,
     strikethroughPosition |-> 2, strikethroughThickness |-> 1]
\* The installed fonts' metrics.
SystemFontMetrics == [f \in Faces |-> FontMetrics(8, 6, 2, 1)]
\* Metrics a font file may carry.
FontMetricsInputs ==
    {FontMetrics(upm, a, d, g) : upm \in {8, 1000}, a \in 0..MaxUnits,
                                 d \in 0..MaxUnits, g \in (0 - MaxUnits)..MaxUnits}

\* What the platform answers to the calls of one get_glyph: factory creation
\* (asked once per process), glyph run analysis, texture extraction, and the
\* user locale: "en" with its terminating null counted in the length, a lone
\* surrogate, or nothing at all (length 0).
PlatOk == [create_hr |-> "S_OK", factory_null |-> FALSE,
           query_hr |-> "S_OK", factory3_null |-> FALSE,
           analysis_hr |-> "S_OK", native_null |-> FALSE,
           bounds_hr |-> "S_OK", texture_hr |-> "S_OK",
           locale_len |-> 3, locale_buffer |-> <<101, 110, 0>>]
PlatOutcomes == { PlatOk,
                  [PlatOk EXCEPT !.create_hr = "E_FAIL"],
                  [PlatOk EXCEPT !.factory_null = TRUE],
                  [PlatOk EXCEPT !.query_hr = "E_NOINTERFACE"],
                  [PlatOk EXCEPT !.factory3_null = TRUE],
                  [PlatOk EXCEPT !.analysis_hr = "E_FAIL"],
                  [PlatOk EXCEPT !.native_null = TRUE],
                  [PlatOk EXCEPT !.bounds_hr = "E_FAIL"],
                  [PlatOk EXCEPT !.texture_hr = "E_FAIL"],
                  [PlatOk EXCEPT !.locale_len = 2, !.locale_buffer = <<55296, 0, 0>>],
                  [PlatOk EXCEPT !.locale_len = 0, !.locale_buffer = <<0, 0, 0>>] }

\* Whether glyph run analysis and texture extraction all succeed under plat.
AnalysisOk(plat) ==
    /\ plat.analysis_hr = "S_OK" /\ ~plat.native_null
    /\ plat.bounds_hr = "S_OK" /\ plat.texture_hr = "S_OK"

\* Keys a caller may pass: every loaded key and the key the counter would
\* issue next, which no load_font has returned.
KeysToTry == DOMAIN fonts \cup {TOKEN}

\* The answers get_glyph(key, character) can ask for in the current state:
\* none for an unknown key; the factory is created only while FACTORY3 is
\* empty; the locale is read only with a fallback sequence and a character
\* the primary face lacks.
PlatAsked(key, character) ==
    {plat \in PlatOutcomes :
        /\ key \notin DOMAIN fonts => plat = PlatOk
        /\ IsSome(FACTORY3) => /\ plat.create_hr = "S_OK" /\ ~plat.factory_null
                               /\ plat.query_hr = "S_OK" /\ ~plat.factory3_null
        /\ (\/ ~IsSome(fallback_sequence)
            \/ key \notin DOMAIN fonts
            \/ get_glyph_index(fonts[key].face, character) # MISSING_GLYPH_INDEX)
           => plat.locale_len = PlatOk.locale_len}
GlyphKey(font_key, character, size) ==
    [font_key |-> font_key, character |-> character, size |-> size]

\* ------------------------------------------------------------ actions
\* DirectWriteRasterizer::new(); the host may have no system fallback, and the
\* default rendering mode is whichever RenderingMode::default() is.
New ==
    /\ fonts = <<>>
    /\ keys = <<>>
    /\ fallback_sequence \in {None, Some("SystemFallback")}
    /\ rendering_mode \in Modes
    /\ grid_fitting = FALSE
    /\ TOKEN = 0
    /\ FACTORY3 = None
    /\ looked_up = {}
    /\ returned = [d \in Descs |-> {}]
    /\ last = [op |-> "new", args |-> <<>>, result |-> <<"Ok">>, trace |-> NoTrace]

Init == New /\ font_metrics = SystemFontMetrics

SetRenderingMode(mode) ==
    /\ rendering_mode' = mode
    /\ last' = [op |-> "set_rendering_mode", args |-> [mode |-> mode],
                result |-> <<"Ok">>, trace |-> NoTrace]
    /\ UNCHANGED <<fonts, keys, fallback_sequence, grid_fitting, TOKEN, FACTORY3,
                   font_metrics, looked_up, returned>>

SetGridFitting(enabled) ==
    /\ grid_fitting' = enabled
    /\ last' = [op |-> "set_grid_fitting", args |-> [enabled |-> enabled],
                result |-> <<"Ok">>, trace |-> NoTrace]
    /\ UNCHANGED <<fonts, keys, fallback_sequence, rendering_mode, TOKEN, FACTORY3,
                   font_metrics, looked_up, returned>>

Metrics(key, size, hr) ==
    LET r == metrics(Self, key, size, hr)
    IN /\ last' = [op |-> "metrics", args |-> [key |-> key, size |-> size],
                   result |-> r.result, trace |-> r.trace]
       /\ UNCHANGED <<fonts, keys, fallback_sequence, rendering_mode, grid_fitting,
                      TOKEN, FACTORY3, font_metrics, looked_up, returned>>

LoadFont(desc, size) ==
    LET r == load_font(Self, TOKEN, desc, size)
    IN /\ fonts' = r.fonts
       /\ keys' = r.keys
       /\ TOKEN' = r.token
       /\ looked_up' = IF r.family_lookups > 0 THEN looked_up \cup {desc} ELSE looked_up
       /\ returned' = IF r.result[1] = "Ok"
                      THEN [returned EXCEPT ![desc] = @ \cup {r.result[2]}]
                      ELSE returned
       /\ last' = [op |-> "load_font", args |-> [desc |-> desc, size |-> size],
                   result |-> r.result,
                   trace |-> [NoTrace EXCEPT !.family_lookups = r.family_lookups,
                                             !.face_selections = r.face_selections]]
       /\ UNCHANGED <<fallback_sequence, rendering_mode, grid_fitting, FACTORY3,
                      font_metrics>>

\* Faulty variant: the font the fallback mapped is kept in the font map under a new key.
GetGlyphCaching(glyph, plat) ==
    LET r == get_glyph(Self, FACTORY3, plat, glyph)
        nk == FontKey_next(TOKEN)
        keep == IsSome(r.trace.mapped)
    IN /\ FACTORY3' = r.cell
       /\ fonts' = IF keep
                   THEN [k \in DOMAIN fonts \cup {nk.key} |->
                           IF k = nk.key THEN FontFrom(Unwrap(r.trace.mapped)) ELSE fonts[k]]
                   ELSE fonts
       /\ TOKEN' = IF keep THEN nk.token ELSE TOKEN
       /\ last' = [op |-> "get_glyph",
                   args |-> [glyph |-> glyph, analysis_ok |-> AnalysisOk(plat)],
                   result |-> r.result, trace |-> r.trace]
       /\ UNCHANGED <<keys, fallback_sequence, rendering_mode, grid_fitting,
                      font_metrics, looked_up, returned>>

GetGlyph(glyph, plat) ==
    LET r == get_glyph(Self, FACTORY3, plat, glyph)
    IN /\ FACTORY3' = r.cell
       /\ last' = [op |-> "get_glyph",
                   args |-> [glyph |-> glyph, analysis_ok |-> AnalysisOk(plat)],
                   result |-> r.result, trace |-> r.trace]
       /\ UNCHANGED <<fonts, keys, fallback_sequence, rendering_mode, grid_fitting,
                      TOKEN, font_metrics, looked_up, returned>>

Kerning(left, right) ==
    /\ last' = [op |-> "kerning", args |-> <<>>, result |-> kerning(left, right),
                trace |-> NoTrace]
    /\ UNCHANGED <<fonts, keys, fallback_sequence, rendering_mode, grid_fitting,
                   TOKEN, FACTORY3, font_metrics, looked_up, returned>>

Next ==
    \/ \E mode \in Modes : SetRenderingMode(mode)
    \/ \E enabled \in BOOLEAN : SetGridFitting(enabled)
    \/ \E key \in KeysToTry, size \in Sizes, hr \in {"S_OK", "E_FAIL"} :
          Metrics(key, size, hr)
    \/ \E desc \in Descs, size \in Sizes : LoadFont(desc, size)
    \/ \E key \in KeysToTry, character \in Chars, size \in EmSizes :
          \E plat \in PlatAsked(key, character) :
          GetGlyph(GlyphKey(key, character, size), plat)
    \/ \E key \in KeysToTry :
          Kerning(GlyphKey(key, 97, 1), GlyphKey(key, 8364, 1))

Spec == Init /\ [][Next]_vars

\* The metrics engine alone, over every face metrics in FontMetricsInputs: one
\* description is loaded and its key measured at every size.
InitMetrics ==
    /\ New
    /\ fallback_sequence = None
    /\ rendering_mode = "Grayscale"
    /\ \E vm \in FontMetricsInputs : font_metrics = [f \in Faces |-> vm]

NextMetrics ==
    \/ \E size \in Sizes : LoadFont(AllDescs[1], size)
    \/ \E key \in KeysToTry, size \in Sizes : Metrics(key, size, "S_OK")

SpecMetrics == InitMetrics /\ [][NextMetrics]_vars

\* ------------------------------------------------------------ properties
\* The keys load_font has returned to a caller of this rasterizer.
Issued == UNION {returned[d] : d \in Descs}
LastKey == IF last.op = "metrics" THEN last.args.key ELSE last.args.glyph.font_key
LastIsLookup == last.op \in {"metrics", "get_glyph"}

\* C1 (idempotent load): over any sequence of operations, all successful
\* load_font calls for one description return the same key, at every size.
C1_IdempotentLoad == \A d \in Descs : Cardinality(returned[d]) <= 1

\* A description loaded before is requested again, at size 2, and is answered
\* from the cache.
C1_Witness ==
    /\ last.op = "load_font" /\ last.result[1] = "Ok"
    /\ last.args.size = 2 /\ last.trace.family_lookups = 0
    /\ last.result[2] \in returned[last.args.desc]

\* C2 (key uniqueness): no key is returned for two distinct descriptions, also
\* when both resolve to the same face.
C2_KeyUniqueness ==
    \A d1, d2 \in Descs : d1 # d2 => returned[d1] \cap returned[d2] = {}

\* Two distinct descriptions are loaded and their fonts have the same face.
C2_Witness ==
    \E d1, d2 \in DOMAIN keys :
       /\ d1 # d2
       /\ returned[d1] # {} /\ returned[d2] # {}
       /\ fonts[keys[d1]].face = fonts[keys[d2]].face

\* C3 (unknown key safety): metrics and get_glyph with a key load_font never
\* returned answer UnknownFontKey, having made no glyph lookup, no fallback
\* resolution, no platform query and no rasterization.
C3_UnknownKeySafety ==
    (LastIsLookup /\ LastKey \notin Issued) =>
       /\ last.result = <<"UnknownFontKey">>
       /\ last.trace.glyph_lookups = 0
       /\ last.trace.fallback_calls = 0
       /\ last.trace.locale_queries = 0
       /\ last.trace.map_calls = 0
       /\ last.trace.raster_calls = 0

\* get_glyph was called with a key never issued while another key is loaded.
C3_Witness ==
    /\ last.op = "get_glyph" /\ LastKey \notin Issued
    /\ DOMAIN fonts # {}

\* C9 (cache consistency, no eviction): every key of the description map is in
\* the font map, and metrics and get_glyph never answer UnknownFontKey for a
\* key load_font has returned.
C9_CacheConsistency ==
    /\ \A d \in DOMAIN keys : keys[d] \in DOMAIN fonts
    /\ (LastIsLookup /\ LastKey \in Issued) => last.result[1] # "UnknownFontKey"

\* With two descriptions loaded, the key issued first is still served.
C9_Witness ==
    /\ Cardinality(DOMAIN keys) = 2
    /\ LastIsLookup /\ LastKey \in Issued /\ LastKey = 0
    /\ last.result[1] # "UnknownFontKey"

\* What the host holds for a get_glyph request, read off the glyph tables and
\* the fallback mapping directly.
KnownGlyphCall == last.op = "get_glyph" /\ last.args.glyph.font_key \in DOMAIN fonts
PrimaryFont == fonts[last.args.glyph.font_key]
PrimaryMissing ==
    get_glyph_index(PrimaryFont.face, last.args.glyph.character) = MISSING_GLYPH_INDEX
HostMapped ==
    LET ch == last.args.glyph.character
    IN IF ~IsSome(fallback_sequence) THEN None
       ELSE map_characters(SubSeq(encode_utf16(ch), 1, len_utf16(ch)), 0, len_utf16(ch),
                           available_fonts, PrimaryFont.family_name, PrimaryFont.weight,
                           PrimaryFont.style, PrimaryFont.stretch)
HostFinalIndex ==
    IF ~PrimaryMissing
    THEN get_glyph_index(PrimaryFont.face, last.args.glyph.character)
    ELSE IF IsSome(HostMapped)
    THEN get_glyph_index(create_font_face(Unwrap(HostMapped)), last.args.glyph.character)
    ELSE MISSING_GLYPH_INDEX
\* The rasterization step failed: no factory, or analysis or texture extraction failed.
PlatformFailed == FACTORY3 = Some(0) \/ ~last.args.analysis_ok

FallbackOnce == last.trace.fallback_calls = IF PrimaryMissing THEN 1 ELSE 0
FallbackMissing ==
    /\ last.result[1] = "MissingGlyph"
    /\ ~IsSome(HostMapped) \/ HostFinalIndex = MISSING_GLYPH_INDEX
FallbackGlyph ==
    /\ last.result[1] = "Ok"
    /\ IsSome(HostMapped) /\ HostFinalIndex # MISSING_GLYPH_INDEX
    /\ last.trace.face = Some(create_font_face(Unwrap(HostMapped)))
    /\ Unwrap(last.trace.params).glyphIndex = HostFinalIndex

\* C4 as stated (fallback correctness): fallback resolution runs exactly once
\* when the primary face lacks the character and never otherwise, and then the
\* call yields MissingGlyph or a non-missing glyph of the fallback face.
C4_AsStated ==
    KnownGlyphCall =>
       /\ FallbackOnce
       /\ PrimaryMissing => FallbackMissing \/ FallbackGlyph

\* C4 amended: as stated, except that a call that invoked fallback resolution
\* may also end in PlatformError, when the rasterization step fails, or abort
\* in the locale query before any font is mapped.
C4_Fallback ==
    KnownGlyphCall =>
       /\ FallbackOnce
       /\ PrimaryMissing =>
             \/ FallbackMissing
             \/ FallbackGlyph
             \/ last.result[1] = "PlatformError" /\ PlatformFailed
             \/ /\ last.result[1] = "Panic"
                /\ IsSome(fallback_sequence)
                /\ last.trace.locale_queries = 1 /\ last.trace.map_calls = 0
                /\ last.trace.raster_calls = 0

\* The primary face lacks the character and the glyph comes from the fallback face.
C4_Witness ==
    /\ KnownGlyphCall /\ PrimaryMissing
    /\ last.trace.fallback_calls = 1
    /\ last.result[1] = "Ok"
    /\ last.trace.face # Some(PrimaryFont.face)

\* C5 (a missing glyph is no platform failure): for a known key, PlatformError
\* is returned only when the rasterization step failed; when it succeeds the
\* result is MissingGlyph with the rasterized placeholder exactly when the
\* final glyph index is 0, and the rasterized glyph otherwise.
C5_MissingNotPlatformError ==
    KnownGlyphCall =>
       /\ last.result[1] = "PlatformError" => PlatformFailed
       /\ (last.trace.raster_calls = 1 /\ ~PlatformFailed) =>
             /\ Unwrap(last.trace.raster)[1] = "Ok"
             /\ last.result[2] = Unwrap(last.trace.raster)[2]
             /\ last.result[2].character = last.args.glyph.character
             /\ Unwrap(last.trace.params).glyphIndex = HostFinalIndex
             /\ last.result[1] = IF HostFinalIndex = MISSING_GLYPH_INDEX
                                 THEN "MissingGlyph" ELSE "Ok"

\* Rasterization succeeded on a character no face has: MissingGlyph with a placeholder.
C5_Witness ==
    /\ KnownGlyphCall /\ ~PlatformFailed
    /\ HostFinalIndex = MISSING_GLYPH_INDEX
    /\ last.result[1] = "MissingGlyph"
    /\ last.result[2].width = 0

\* The table of spec section 4.5: strategy, measuring, antialiasing, texture layout.
ModeTable(mode) ==
    CASE mode = "Aliased" ->
           <<"RENDERING_MODE1_ALIASED", "MEASURING_MODE_GDI_CLASSIC",
             "TEXT_ANTIALIAS_MODE_GRAYSCALE", "TEXTURE_ALIASED_1x1">>
      [] mode = "Grayscale" ->
           <<"RENDERING_MODE1_NATURAL_SYMMETRIC", "MEASURING_MODE_NATURAL",
             "TEXT_ANTIALIAS_MODE_GRAYSCALE", "TEXTURE_ALIASED_1x1">>
      [] mode = "Subpixel" ->
           <<"RENDERING_MODE1_NATURAL_SYMMETRIC", "MEASURING_MODE_NATURAL",
             "TEXT_ANTIALIAS_MODE_CLEARTYPE", "TEXTURE_CLEARTYPE_3x1">>
Rasterized == last.op = "get_glyph" /\ last.trace.raster_calls = 1
UsesSettings ==
    Rasterized =>
       LET p == Unwrap(last.trace.params)
       IN /\ <<p.rendering_mode1, p.measuring_mode, p.antialias_mode, p.texture_type>>
               = ModeTable(rendering_mode)
          /\ p.grid_fit_mode = IF grid_fitting THEN "GRID_FIT_MODE_ENABLED"
                               ELSE "GRID_FIT_MODE_DISABLED"
SettingsStep ==
    /\ last'.op = "set_rendering_mode" =>
          rendering_mode' = last'.args.mode /\ grid_fitting' = grid_fitting
    /\ last'.op = "set_grid_fitting" =>
          grid_fitting' = last'.args.enabled /\ rendering_mode' = rendering_mode
    /\ last'.op \notin {"set_rendering_mode", "set_grid_fitting"} =>
          rendering_mode' = rendering_mode /\ grid_fitting' = grid_fitting

\* C6 (settings apply to all later rasterizations): grid fitting starts
\* disabled; each setter sets exactly its own setting to its argument and no
\* other call changes either; and every rasterization uses the table row of the
\* current rendering mode and the current grid-fit flag.
C6_SettingsApply ==
    /\ grid_fitting = FALSE
    /\ []UsesSettings
    /\ [][SettingsStep]_vars

\* A glyph was rasterized in Aliased mode with grid fitting switched on.
C6_Witness ==
    /\ Rasterized
    /\ rendering_mode = "Aliased" /\ grid_fitting
    /\ Unwrap(last.trace.params).grid_fit_mode = "GRID_FIT_MODE_ENABLED"
    /\ Unwrap(last.trace.params).measuring_mode = "MEASURING_MODE_GDI_CLASSIC"

\* Two successive metrics calls on one key, the second at a larger size.
MetricsOk == last.op = "metrics" /\ last.result[1] = "Ok"
LargerSizeStep ==
    /\ MetricsOk /\ MetricsOk'
    /\ last'.args.key = last.args.key
    /\ last'.args.size > last.args.size
LineHeightGrows == F64Gt(last'.result[2].line_height, last.result[2].line_height)
LastFaceMetrics == font_metrics[fonts[last.args.key].face]
PositiveExtent ==
    /\ LastFaceMetrics.designUnitsPerEm > 0
    /\ LastFaceMetrics.ascent + LastFaceMetrics.descent + LastFaceMetrics.lineGap > 0

\* C7 as stated (metrics monotonicity): for every face metrics, a larger size
\* gives a strictly larger line_height.
C7_AsStated == [][LargerSizeStep => LineHeightGrows]_vars

\* C7 amended: a larger size gives a strictly larger line_height for every
\* face whose ascent + descent + lineGap is positive (designUnitsPerEm being
\* positive).
C7_Monotonic == [][(LargerSizeStep /\ PositiveExtent) => LineHeightGrows]_vars

\* A face with a negative line gap and positive extent was measured at size 2.
C7_Witness ==
    /\ MetricsOk /\ last.args.size = 2
    /\ PositiveExtent /\ LastFaceMetrics.lineGap < 0
    /\ F64Gt(last.result[2].line_height, F64From(0))

\* A load_font call that ran the family lookup.
LookupStep == last'.op = "load_font" /\ last'.trace.family_lookups > 0

\* C8 as stated: at most one matching lookup per description, also for one
\* that fails to resolve and is requested again.
C8_AsStated == [][LookupStep => last'.args.desc \notin looked_up]_vars

\* C8 amended: at most one matching lookup per description that resolves (no
\* lookup once its key is cached); a description that fails to resolve is
\* looked up again on every request and fails again.
C8_OneLookupPerResolved ==
    [][/\ LookupStep => last'.args.desc \notin DOMAIN keys
       /\ last'.trace.face_selections <= last'.trace.family_lookups
       /\ last'.trace.family_lookups <= 1
       /\ (last'.op = "load_font" /\ last'.args.desc \in looked_up \ DOMAIN keys) =>
             /\ last'.trace.family_lookups = 1
             /\ last'.result = <<"FontNotFound", last'.args.desc>>]_vars

\* A cached description is answered without a lookup while a description that
\* failed before is on record.
C8_Witness ==
    /\ last.op = "load_font" /\ last.result[1] = "Ok"
    /\ last.trace.family_lookups = 0
    /\ last.args.desc \in looked_up
    /\ looked_up \ DOMAIN keys # {}

CacheFrame == last'.op # "load_font" => fonts' = fonts /\ keys' = keys
CacheSize ==
    Cardinality(DOMAIN fonts) <= Cardinality({d \in Descs : returned[d] # {}})
FallbackResolvedAfresh ==
    (KnownGlyphCall /\ PrimaryMissing) =>
       /\ last.trace.fallback_calls = 1
       /\ (IsSome(fallback_sequence) /\ last.result[1] # "Panic") =>
             last.trace.map_calls = 1 /\ last.trace.mapped = HostMapped

\* C10 (only load_font changes the cache): every call but load_font leaves
\* both maps unchanged; the font map never holds more fonts than descriptions were
\* loaded; a call for a character the primary face lacks resolves the fallback
\* afresh, asking the fallback sequence whenever there is one.
C10_OnlyLoadChangesCache ==
    /\ [][CacheFrame]_vars
    /\ []CacheSize
    /\ []FallbackResolvedAfresh

\* A fallback font served a glyph and the cache still holds only the loaded font.
C10_Witness ==
    /\ KnownGlyphCall /\ PrimaryMissing
    /\ IsSome(last.trace.mapped) /\ last.trace.map_calls = 1
    /\ Cardinality(DOMAIN fonts) = 1

====
